---- MODULE Spec2Model ----
(***************************************************************************)
(* CdpHarRecorder (openhands/tools/browser_use/cdp_har_recorder.py): the   *)
(* event-driven correlator that turns CDP Network events into HAR entries. *)
(*                                                                         *)
(* Python dicts are modelled as follows.  An event payload (and every      *)
(* nested dict read with .get) is a record whose DOMAIN is the set of keys *)
(* present, so dict.get(k, d) is Get(dict, k, d).  A header dict is a      *)
(* sequence of <<name, value>> pairs with distinct names (insertion        *)
(* order); a HAR header list is a sequence of [name, value] records.       *)
(* _pending_requests is an insertion-ordered dict: a sequence of entries   *)
(* with distinct _requestId.  Every entry dict carries uid, the identity   *)
(* of the Python object, which the program itself never reads.             *)
(*                                                                         *)
(* start() and stop() are coroutines: each await is a point where the      *)
(* event loop may run the (synchronous) event callbacks, so each is split  *)
(* at its awaits and pc is the position of the one caller task.            *)
(*                                                                         *)
(* HarRecorder (openhands/tools/browser_use/har_recorder.py), the          *)
(* Playwright-based recorder, is a second object with its own variables;   *)
(* the two recorders share nothing.                                        *)
(***************************************************************************)
EXTENDS Integers, Sequences, FiniteSets, TLC

VARIABLES
    _started,              \* self._started
    _callback_registered,  \* self._callback_registered
    _cdp_client,           \* self._cdp_client is not None
    _session_id,           \* self._session_id
    _enabled_sessions,     \* self._enabled_sessions
    _entries,              \* self._entries
    _pending_requests,     \* self._pending_requests
    _pending_extra_info,   \* self._pending_extra_info
    register_calls,        \* cdp_client.register.* rounds made by start()
    har_file,              \* what is on disk at self.har_path
    pc,                    \* position of the caller task inside start()/stop()
    loop_sids,             \* start(): sessions the for loop has still to visit
    tasks,                 \* asyncio tasks created by _on_target_attached, not yet run
    enable_cmds,           \* Network.enable commands sent, per session id
    disable_cmds,          \* Network.disable commands sent
    clock,                 \* datetime.now()
    nextUid,               \* identity given to the next entry object
    starts,                \* number of start() calls that passed the guard
    trace,                 \* history: per entry object, the events that hit it
    termLog,               \* history: entry objects in the order they left pending
    last,                  \* history: the operation of the last step and its payload
    recorder,              \* HarRecorder: _playwright, _browser, _context, _page, _started
    recorder_pc,           \* HarRecorder: position of the caller inside start()/navigate()/stop()
    recorder_last,         \* history: the last HarRecorder call and how it ended
    context_urls,          \* HarRecorder: URLs the page of the current context was sent to
    saved_har              \* HarRecorder: what Playwright has saved at har_path

progVars == <<_started, _callback_registered, _cdp_client, _session_id,
              _enabled_sessions, _entries, _pending_requests,
              _pending_extra_info>>
envVars  == <<register_calls, har_file, pc, loop_sids, tasks, enable_cmds, disable_cmds, clock>>
histVars == <<nextUid, starts, trace, termLog, last>>
harVars  == <<recorder, recorder_pc, recorder_last, context_urls, saved_har>>
vars     == <<progVars, envVars, histVars, harVars>>

----------------------------------------------------------------------------
(* Bounds *)

\* entry objects created in one behaviour
MaxReq == 2
\* start() calls that pass the already-started guard in one behaviour
MaxStarts == 1
\* HarRecorder: goto calls on the page of one context
MaxNav == 2

----------------------------------------------------------------------------
(* Python values *)

None == "None"
EmptyDict == <<>>
HarPath == "network.har"
NoFile == [exists |-> FALSE]
NoEvent == [none |-> TRUE]

\* dict.get(key, default)
Get(dict, key, default) == IF key \in DOMAIN dict THEN dict[key] ELSE default

\* a value that is not a dict where a dict is expected (a str, a list): any
\* .get or .items on it raises AttributeError
NotADict == [notdict |-> TRUE]
IsDict(x) == "notdict" \notin DOMAIN x

\* the same for a header dict: a list, which has no .items
NotAHeaderDict == << <<>> >>
IsHeaderDict(headers) == headers # NotAHeaderDict

\* truth value of a str-or-None (`if not request_id`, `if post_data`)
Truthy(s) == s # None /\ s # ""

\* the keys of a header dict
Names(headers) == {headers[i][1] : i \in 1..Len(headers)}

\* headers.get(name, default) on a header dict
HeaderGet(headers, name, default) ==
    IF name \in Names(headers)
    THEN LET i == CHOOSE j \in 1..Len(headers) : headers[j][1] = name
         IN  headers[i][2]
    ELSE default

\* datetime.isoformat()
IsoFormat(t) == [iso |-> t]

_format_headers(headers) ==
    [i \in 1..Len(headers) |-> [name |-> headers[i][1], value |-> headers[i][2]]]

----------------------------------------------------------------------------
(* _pending_requests as an insertion-ordered dict *)

PendingIds == {_pending_requests[i]._requestId : i \in 1..Len(_pending_requests)}

PendingIndex(id) ==
    CHOOSE i \in 1..Len(_pending_requests) : _pending_requests[i]._requestId = id

PendingEntry(id) == _pending_requests[PendingIndex(id)]

\* history: the entry object an event with this requestId finds pending, or 0
Hit(id) == IF id \in PendingIds THEN PendingEntry(id).uid ELSE 0

\* self._pending_requests[request_id] = entry
DictSet(pend, id, entry) ==
    IF \E i \in 1..Len(pend) : pend[i]._requestId = id
    THEN [i \in 1..Len(pend) |-> IF pend[i]._requestId = id THEN entry ELSE pend[i]]
    ELSE Append(pend, entry)

\* mutant: the entry stays in the dict
DictPop_Keeps(pend, id) == pend

\* self._pending_requests.pop(request_id): what is left
DictPop(pend, id) == SelectSeq(pend, LAMBDA e : e._requestId # id)

----------------------------------------------------------------------------
(* _on_request_will_be_sent *)

\* the entry dict built from the event
BuildEntry(event, uid, now) ==
    LET request   == Get(event, "request", EmptyDict)
        wall_time == Get(event, "wallTime", 0)
        started_dt == IF wall_time # 0 THEN wall_time ELSE now
        post_data == Get(request, "postData", None)
        req == [method      |-> Get(request, "method", "GET"),
                url         |-> Get(request, "url", ""),
                httpVersion |-> "HTTP/1.1",
                headers     |-> _format_headers(Get(request, "headers", <<>>)),
                queryString |-> <<>>,
                cookies     |-> <<>>,
                headersSize |-> -1,
                bodySize    |-> -1]
        reqPost == [method      |-> req.method,
                    url         |-> req.url,
                    httpVersion |-> req.httpVersion,
                    headers     |-> req.headers,
                    queryString |-> req.queryString,
                    cookies     |-> req.cookies,
                    headersSize |-> req.headersSize,
                    bodySize    |-> req.bodySize,
                    postData    |->
                        [mimeType |-> HeaderGet(Get(request, "headers", <<>>),
                                                "Content-Type",
                                                "application/x-www-form-urlencoded"),
                         text     |-> post_data]]
    IN  [uid             |-> uid,
         startedDateTime |-> IsoFormat(started_dt),
         time            |-> 0,
         request         |-> IF Truthy(post_data) THEN reqPost ELSE req,
         response        |-> [status      |-> 0,
                              statusText  |-> "",
                              httpVersion |-> "HTTP/1.1",
                              headers     |-> <<>>,
                              cookies     |-> <<>>,
                              content     |-> [size |-> 0, mimeType |-> ""],
                              redirectURL |-> "",
                              headersSize |-> -1,
                              bodySize    |-> -1],
         cache           |-> EmptyDict,
         timings         |-> [send |-> 0, wait |-> 0, receive |-> 0],
         _requestId      |-> Get(event, "requestId", None)]

\* mutant: every extra header is appended, present on the entry or not
MergeHeaders_NoCheck(entryHeaders, extra_headers) ==
    entryHeaders \o _format_headers(extra_headers)

\* the loop `for name, value in extra_headers.items(): if name not in
\* existing_headers: entry["request"]["headers"].append(...)`, existing_headers
\* being computed once before the loop
MergeHeaders(entryHeaders, extra_headers) ==
    LET existing_headers == {entryHeaders[i].name : i \in 1..Len(entryHeaders)}
        added == SelectSeq(extra_headers, LAMBDA h : h[1] \notin existing_headers)
    IN  entryHeaders \o _format_headers(added)

WithRequestHeaders(entry, headers) == [entry EXCEPT !.request.headers = headers]

\* mutant: the cached headers are appended without looking at the names the
\* entry has
ApplyCachedExtraInfo_NoCheck(entry, cache) ==
    IF \E c \in cache : c[1] = entry._requestId
    THEN LET cached == (CHOOSE c \in cache : c[1] = entry._requestId)[2]
         IN  WithRequestHeaders(entry,
                 entry.request.headers
                 \o _format_headers(Get(cached, "headers", <<>>)))
    ELSE entry

\* the entry after the cached extraInfo, if any, has been applied
ApplyCachedExtraInfo(entry, cache) ==
    IF \E c \in cache : c[1] = entry._requestId
    THEN LET cached == (CHOOSE c \in cache : c[1] = entry._requestId)[2]
             extra_headers == Get(cached, "headers", <<>>)
         IN  IF extra_headers # <<>>
             THEN WithRequestHeaders(entry,
                      MergeHeaders(entry.request.headers, extra_headers))
             ELSE entry
    ELSE entry

\* self._pending_extra_info.pop(request_id), guarded by `in`
CachePop(cache, id) == {c \in cache : c[1] # id}

\* mutant: the record is added beside the one the id already has
CachePut_Keeps(cache, id, extra_headers) ==
    cache \cup {<<id, [headers |-> extra_headers]>>}

\* self._pending_extra_info[request_id] = {"headers": extra_headers}
CachePut(cache, id, extra_headers) ==
    CachePop(cache, id) \cup {<<id, [headers |-> extra_headers]>>}

CachedIds == {c[1] : c \in _pending_extra_info}

\* the cached record that requestWillBeSent finds for id, if any
CachedFor(id) ==
    IF id \in CachedIds
    THEN (CHOOSE c \in _pending_extra_info : c[1] = id)[2]
    ELSE NoEvent

\* history: the entry object that _pending_requests[id] = entry drops, if any
MarkOverwritten(tr, id) ==
    [u \in 1..Len(tr) |->
        IF id \in PendingIds /\ u = PendingEntry(id).uid
        THEN [tr[u] EXCEPT !.term = "overwritten"]
        ELSE tr[u]]

\* the handler reaches line 189: it has not returned on `if not request_id`,
\* and request.get (line 149) has not raised into `except Exception`
RequestIsStored(event) ==
    /\ Truthy(Get(event, "requestId", None))
    /\ IsDict(Get(event, "request", EmptyDict))

OnRequestWillBeSent(event) ==
    LET request_id == Get(event, "requestId", None) IN
    /\ _callback_registered
    /\ last' = [op |-> "requestWillBeSent", id |-> request_id,
                hit |-> IF RequestIsStored(event) THEN nextUid ELSE 0,
                bad |-> ~IsDict(Get(event, "request", EmptyDict))]
    /\ IF ~RequestIsStored(event)
       THEN UNCHANGED <<progVars, envVars, nextUid, starts, trace, termLog>>
       ELSE /\ LET entry == BuildEntry(event, nextUid, clock) IN
               /\ _pending_requests' =
                      DictSet(_pending_requests, request_id,
                              ApplyCachedExtraInfo(entry, _pending_extra_info))
               /\ _pending_extra_info' = CachePop(_pending_extra_info, request_id)
            /\ nextUid' = nextUid + 1
            /\ clock' = clock + 1
            /\ trace' = Append(MarkOverwritten(trace, request_id),
                               [req |-> event, resp |-> NoEvent, term |-> "none",
                                by |-> NoEvent])
            /\ UNCHANGED <<_started, _callback_registered, _cdp_client,
                           _session_id, _enabled_sessions, _entries,
                           register_calls, har_file, pc, loop_sids, tasks,
                           enable_cmds, disable_cmds, starts, termLog>>
    /\ UNCHANGED harVars

----------------------------------------------------------------------------
(* _on_request_will_be_sent_extra_info *)

\* mutant: the extra headers are put in front of the entry's own
MergeIntoPending_ExtraFirst(entry, extra_headers) ==
    WithRequestHeaders(entry,
        _format_headers(extra_headers) \o entry.request.headers)

\* lines 238-248: the pending entry after `if extra_headers:` and its loop
MergeIntoPending(entry, extra_headers) ==
    IF extra_headers # <<>>
    THEN WithRequestHeaders(entry,
             MergeHeaders(entry.request.headers, extra_headers))
    ELSE entry

OnRequestWillBeSentExtraInfo(event) ==
    LET request_id    == Get(event, "requestId", None)
        extra_headers == Get(event, "headers", <<>>)
    IN
    /\ _callback_registered
    /\ last' = [op |-> "requestWillBeSentExtraInfo", id |-> request_id,
                hit |-> Hit(request_id), headers |-> extra_headers]
    /\ IF ~Truthy(request_id)
       THEN UNCHANGED <<_pending_requests, _pending_extra_info>>
       ELSE IF request_id \in PendingIds
            THEN /\ _pending_requests' =
                        DictSet(_pending_requests, request_id,
                                MergeIntoPending(PendingEntry(request_id),
                                                 extra_headers))
                 /\ UNCHANGED _pending_extra_info
            ELSE /\ _pending_extra_info' =
                        CachePut(_pending_extra_info, request_id, extra_headers)
                 /\ UNCHANGED _pending_requests
    /\ UNCHANGED <<_started, _callback_registered, _cdp_client, _session_id,
                   _enabled_sessions, _entries, envVars,
                   nextUid, starts, trace, termLog>>
    /\ UNCHANGED harVars

----------------------------------------------------------------------------
(* _on_response_received *)

\* `if not request_id or request_id not in self._pending_requests`
NoPendingEntry(request_id) ==
    ~Truthy(request_id) \/ request_id \notin PendingIds

\* mutant: an event without a pending entry gets an entry of its own
DropOrphan_Recorded(event) ==
    /\ _entries' = Append(_entries, BuildEntry(event, 0, clock))
    /\ UNCHANGED <<_pending_requests, trace, termLog>>

\* the `return` that follows it: the event is dropped
DropOrphan(event) == UNCHANGED <<_pending_requests, _entries, trace, termLog>>

\* mutant: the response status is not written to the entry
ResponseEntry_StatusNotWritten(entry, response) ==
    [entry EXCEPT
        !.response.statusText = Get(response, "statusText", ""),
        !.response.headers    = _format_headers(Get(response, "headers", <<>>)),
        !.response.content.mimeType = Get(response, "mimeType", "")]

\* the entry after the response info and the timing have been written to it,
\* one assignment after the other: _format_headers raises on headers that are
\* not a dict (line 272), and what lines 270-271 have written by then stays
ResponseEntry(entry, response) ==
    LET timing == Get(response, "timing", EmptyDict)
        headers == Get(response, "headers", <<>>)
        e0 == [entry EXCEPT
                 !.response.status     = Get(response, "status", 0),
                 !.response.statusText = Get(response, "statusText", "")]
        e1 == [e0 EXCEPT
                 !.response.headers    = _format_headers(headers),
                 !.response.content.mimeType = Get(response, "mimeType", "")]
    IN  IF ~IsHeaderDict(headers)
        THEN e0
        ELSE IF DOMAIN timing # {}
             THEN [e1 EXCEPT !.timings.wait =
                      Get(timing, "receiveHeadersEnd", 0)
                      - Get(timing, "sendEnd", 0)]
             ELSE e1

\* the payload of responseReceived has a field of the wrong shape
ResponseIsMalformed(response) ==
    ~IsDict(response) \/ ~IsHeaderDict(Get(response, "headers", <<>>))

OnResponseReceived(event) ==
    LET request_id == Get(event, "requestId", None)
        response   == Get(event, "response", EmptyDict)
    IN
    /\ _callback_registered
    /\ last' = [op |-> "responseReceived", id |-> request_id,
                hit |-> Hit(request_id), bad |-> ResponseIsMalformed(response)]
    /\ IF NoPendingEntry(request_id)
       THEN DropOrphan(event)
       ELSE IF ~IsDict(response)
       THEN \* response.get raises at line 270, before anything is written
            UNCHANGED <<_pending_requests, _entries, trace, termLog>>
       ELSE /\ _pending_requests' =
                   DictSet(_pending_requests, request_id,
                           ResponseEntry(PendingEntry(request_id), response))
            /\ trace' = [trace EXCEPT ![PendingEntry(request_id).uid].resp = event]
            /\ UNCHANGED <<_entries, termLog>>
    /\ UNCHANGED <<_started, _callback_registered, _cdp_client, _session_id,
                   _enabled_sessions, _pending_extra_info, envVars,
                   nextUid, starts>>
    /\ UNCHANGED harVars

----------------------------------------------------------------------------
(* _on_loading_finished *)

\* the popped entry with the content size, the body size and the text
\* placeholder
FinishedEntry(entry, event) ==
    LET encoded_length == Get(event, "encodedDataLength", 0) IN
    [entry EXCEPT
        !.response.content = [size     |-> encoded_length,
                              mimeType |-> entry.response.content.mimeType,
                              text     |-> ""],
        !.response.bodySize = encoded_length]

OnLoadingFinished(event) ==
    LET request_id == Get(event, "requestId", None) IN
    /\ _callback_registered
    /\ last' = [op |-> "loadingFinished", id |-> request_id, hit |-> Hit(request_id)]
    /\ IF NoPendingEntry(request_id)
       THEN DropOrphan(event)
       ELSE /\ _pending_requests' = DictPop(_pending_requests, request_id)
            /\ _entries' = Append(_entries,
                                  FinishedEntry(PendingEntry(request_id), event))
            /\ trace' = [trace EXCEPT
                             ![PendingEntry(request_id).uid].term = "finished",
                             ![PendingEntry(request_id).uid].by = event]
            /\ termLog' = Append(termLog, PendingEntry(request_id).uid)
    /\ UNCHANGED <<_started, _callback_registered, _cdp_client, _session_id,
                   _enabled_sessions, _pending_extra_info, envVars,
                   nextUid, starts>>
    /\ UNCHANGED harVars

----------------------------------------------------------------------------
(* _on_loading_failed *)

\* the popped entry marked as failed
FailedEntry(entry, event) ==
    [entry EXCEPT !.response.status     = 0,
                  !.response.statusText = Get(event, "errorText", "Failed")]

OnLoadingFailed(event) ==
    LET request_id == Get(event, "requestId", None) IN
    /\ _callback_registered
    /\ last' = [op |-> "loadingFailed", id |-> request_id, hit |-> Hit(request_id)]
    /\ IF NoPendingEntry(request_id)
       THEN DropOrphan(event)
       ELSE /\ _pending_requests' = DictPop(_pending_requests, request_id)
            /\ _entries' = Append(_entries,
                                  FailedEntry(PendingEntry(request_id), event))
            /\ trace' = [trace EXCEPT
                             ![PendingEntry(request_id).uid].term = "failed",
                             ![PendingEntry(request_id).uid].by = event]
            /\ termLog' = Append(termLog, PendingEntry(request_id).uid)
    /\ UNCHANGED <<_started, _callback_registered, _cdp_client, _session_id,
                   _enabled_sessions, _pending_extra_info, envVars,
                   nextUid, starts>>
    /\ UNCHANGED harVars

----------------------------------------------------------------------------
(* _on_target_attached, _enable_network_for_session *)

Sent(cmds, sid) == [cmds EXCEPT ![sid] = @ + 1]

\* mutant: the type of the target is not looked at
IsNewPageSession_AnyType(target_type, new_session_id) ==
    Truthy(new_session_id) /\ new_session_id \notin _enabled_sessions

\* `target_type == "page" and new_session_id and new_session_id not in
\* self._enabled_sessions`
IsNewPageSession(target_type, new_session_id) ==
    /\ target_type = "page"
    /\ Truthy(new_session_id)
    /\ new_session_id \notin _enabled_sessions

OnTargetAttached(event) ==
    LET new_session_id == Get(event, "sessionId", None)
        target_info    == Get(event, "targetInfo", EmptyDict)
        target_type    == Get(target_info, "type", "")
    IN
    /\ _callback_registered
    /\ last' = [op |-> "attachedToTarget", id |-> new_session_id, hit |-> 0,
                type |-> target_type]
    /\ IF IsNewPageSession(target_type, new_session_id)
       THEN /\ _enabled_sessions' = _enabled_sessions \cup {new_session_id}
            /\ tasks' = Append(tasks, new_session_id)
       ELSE UNCHANGED <<_enabled_sessions, tasks>>
    /\ UNCHANGED <<_started, _callback_registered, _cdp_client, _session_id,
                   _entries, _pending_requests, _pending_extra_info,
                   register_calls, har_file, pc, loop_sids, enable_cmds,
                   disable_cmds, clock, nextUid, starts, trace, termLog>>
    /\ UNCHANGED harVars

\* the event loop runs a scheduled _enable_network_for_session(sid); whether
\* the command succeeds or fails (ok) changes nothing but the log line
EnableNetworkForSession(ok) ==
    /\ tasks # <<>>
    /\ tasks' = Tail(tasks)
    /\ enable_cmds' = IF _cdp_client THEN Sent(enable_cmds, Head(tasks))
                      ELSE enable_cmds
    /\ last' = [op |-> "_enable_network_for_session", sid |-> Head(tasks),
                ok |-> ok]
    /\ UNCHANGED <<progVars, register_calls, har_file, pc, loop_sids,
                   disable_cmds, clock, nextUid, starts, trace, termLog>>
    /\ UNCHANGED harVars

----------------------------------------------------------------------------
(* start *)

NoSession == [none |-> TRUE]

\* the session ids start() iterates over: session_manager._sessions, when
\* browser_session has one and it is not empty
KnownSessions(browser_session) ==
    IF /\ "session_manager" \in DOMAIN browser_session
       /\ "_sessions" \in DOMAIN browser_session.session_manager
    THEN browser_session.session_manager._sessions
    ELSE <<>>

\* iterations of the for loop whose `if sid not in self._enabled_sessions`
\* is false are passed without an await
RECURSIVE SkipEnabled(_, _)
SkipEnabled(sids, enabled) ==
    IF sids # <<>> /\ Head(sids) \in enabled
    THEN SkipEnabled(Tail(sids), enabled)
    ELSE sids

\* run start() up to its next await: Network.enable for the next session of
\* the loop that is not enabled yet, or else the root-level Network.enable
StartToNextAwait(sids, enabled, root) ==
    LET rest == SkipEnabled(sids, enabled) IN
    /\ loop_sids' = rest
    /\ IF rest # <<>>
       THEN /\ enable_cmds' = Sent(enable_cmds, Head(rest))
            /\ pc' = "start_await_enable"
       ELSE /\ enable_cmds' = Sent(enable_cmds, root)
            /\ pc' = "start_await_root"

\* mutant: start() has no already-started guard
StartIsNoop_Never == FALSE

\* `if self._started: return`
StartIsNoop == _started

StartCall(browser_session, session_id) ==
    /\ pc = "idle"
    /\ IF StartIsNoop
       THEN /\ last' = [op |-> "start", ret |-> "noop"]
            /\ UNCHANGED <<progVars, envVars, nextUid, starts, trace, termLog>>
       ELSE /\ starts' = starts + 1
            /\ _cdp_client' = TRUE
            /\ _session_id' = session_id
            /\ _enabled_sessions' = {}
            /\ register_calls' = IF _callback_registered THEN register_calls
                                  ELSE register_calls + 1
            /\ _callback_registered' = TRUE
            /\ StartToNextAwait(KnownSessions(browser_session), {}, session_id)
            /\ last' = [op |-> "start", ret |-> "await"]
            /\ UNCHANGED <<_started, _entries, _pending_requests,
                           _pending_extra_info, har_file, tasks, disable_cmds,
                           clock, nextUid, trace, termLog>>
    /\ UNCHANGED harVars

\* mutant: a failed Network.enable empties the session set
EagerEnabled_FailureResets(enabled, sid, ok) ==
    IF ok THEN enabled \cup {sid} ELSE {}

\* the session set after the try block of the loop: `self._enabled_sessions
\* .add(sid)` is reached only if the awaited command did not raise
EagerEnabled(enabled, sid, ok) ==
    IF ok THEN enabled \cup {sid} ELSE enabled

\* the awaited Network.enable(session_id=sid) of the loop returns (ok) or
\* raises (~ok)
StartEnableReply(ok) ==
    /\ pc = "start_await_enable"
    /\ LET enabled == EagerEnabled(_enabled_sessions, Head(loop_sids), ok)
       IN  /\ _enabled_sessions' = enabled
           /\ StartToNextAwait(Tail(loop_sids), enabled, _session_id)
    /\ last' = [op |-> "start", ret |-> "await"]
    /\ UNCHANGED <<_started, _callback_registered, _cdp_client, _session_id,
                   _entries, _pending_requests, _pending_extra_info,
                   register_calls, har_file, tasks, disable_cmds, clock,
                   nextUid, starts, trace, termLog>>
    /\ UNCHANGED harVars

\* the awaited root-level Network.enable returns or raises; start() returns
StartRootReply(ok) ==
    /\ pc = "start_await_root"
    /\ _started' = TRUE
    /\ pc' = "idle"
    /\ last' = [op |-> "start", ret |-> "started"]
    /\ UNCHANGED <<_callback_registered, _cdp_client, _session_id,
                   _enabled_sessions, _entries, _pending_requests,
                   _pending_extra_info, register_calls, har_file, loop_sids,
                   tasks, enable_cmds, disable_cmds, clock,
                   nextUid, starts, trace, termLog>>
    /\ UNCHANGED harVars

----------------------------------------------------------------------------
(* stop *)

\* mutant: entries still pending at stop() are discarded
DrainPending_Discards(ents, pend) == ents

\* `for entry in self._pending_requests.values(): self._entries.append(entry)`
DrainPending(ents, pend) == ents \o pend

\* mutant: the entries are sorted by their start time
BuildHar_SortedByStart(ents) ==
    [log |-> [version |-> "1.2",
              creator |-> [name |-> "CdpHarRecorder", version |-> "1.0"],
              entries |-> SortSeq(ents,
                              LAMBDA a, b : a.startedDateTime.iso
                                            < b.startedDateTime.iso)]]

\* the HAR structure that stop() builds
BuildHar(ents) ==
    [log |-> [version |-> "1.2",
              creator |-> [name |-> "CdpHarRecorder", version |-> "1.0"],
              entries |-> ents]]

\* the file after `with self.har_path.open("w") as f: json.dump(har, f)`:
\* open() may raise (file untouched), json.dump may raise (file truncated)
WriteHar(file, har, wr) ==
    CASE wr = "ok"         -> [exists |-> TRUE, complete |-> TRUE, har |-> har]
      [] wr = "open_fails" -> file
      [] wr = "dump_fails" -> [exists |-> TRUE, complete |-> FALSE]

\* mutant: the exception of the write is not caught
StopOutcome_NotCaught(wr) == [raised |-> wr # "ok", ret |-> HarPath]

\* what leaves stop(): its outer `except Exception` catches the exception of
\* the write, so stop() goes on to `self._started = False; return self.har_path`
StopOutcome(wr) ==
    LET exc    == wr # "ok"
        caught == exc
    IN  [raised |-> exc /\ ~caught, ret |-> HarPath]

\* stop() from after the Network.disable to its end, without an await
StopDrainAndWrite(wr) ==
    LET drained == DrainPending(_entries, _pending_requests)
        out     == StopOutcome(wr)
    IN
    /\ _entries' = drained
    /\ _pending_requests' = <<>>
    /\ har_file' = WriteHar(har_file, BuildHar(drained), wr)
    /\ _started' = IF out.raised THEN _started ELSE FALSE
    /\ pc' = "idle"
    /\ trace' = [u \in 1..Len(trace) |->
                    IF \E i \in 1..Len(_pending_requests) :
                           _pending_requests[i].uid = u
                    THEN [trace[u] EXCEPT !.term = "drained"]
                    ELSE trace[u]]
    /\ termLog' = termLog \o
                  [i \in 1..Len(_pending_requests) |-> _pending_requests[i].uid]
    /\ last' = [op |-> "stop", ret |-> IF out.raised THEN "raised" ELSE out.ret,
                noop |-> FALSE, wr |-> wr]

\* `if not self._started: return self.har_path`
StopIsNoop == ~_started

StopCall(wr) ==
    /\ pc = "idle"
    /\ IF StopIsNoop
       THEN /\ last' = [op |-> "stop", ret |-> HarPath, noop |-> TRUE,
                        wr |-> "none"]
            /\ UNCHANGED <<progVars, envVars, nextUid, starts, trace, termLog>>
       ELSE IF _cdp_client
            THEN /\ disable_cmds' = disable_cmds + 1
                 /\ pc' = "stop_await_disable"
                 /\ last' = [op |-> "stop", ret |-> "await", noop |-> FALSE,
                             wr |-> "none"]
                 /\ UNCHANGED <<progVars, register_calls, har_file, loop_sids,
                                tasks, enable_cmds, clock,
                                nextUid, starts, trace, termLog>>
            ELSE /\ StopDrainAndWrite(wr)
                 /\ UNCHANGED <<_callback_registered, _cdp_client, _session_id,
                                _enabled_sessions, _pending_extra_info,
                                register_calls, loop_sids, tasks, enable_cmds,
                                disable_cmds, clock, nextUid, starts>>
    /\ UNCHANGED harVars

\* the awaited Network.disable returns or raises (ok; the exception is
\* passed over), and stop() runs to its end
StopDisableReply(ok, wr) ==
    /\ pc = "stop_await_disable"
    /\ StopDrainAndWrite(wr)
    /\ UNCHANGED <<_callback_registered, _cdp_client, _session_id,
                   _enabled_sessions, _pending_extra_info, register_calls,
                   loop_sids, tasks, enable_cmds, disable_cmds,
                   clock, nextUid, starts>>
    /\ UNCHANGED harVars

----------------------------------------------------------------------------
(* HarRecorder (har_recorder.py): start, navigate, stop *)

\* a Playwright, Browser, BrowserContext or Page object
Handle == "handle"

\* HarRecorder.__init__
HarRecorderInit ==
    /\ recorder = [_playwright |-> None, _browser |-> None, _context |-> None,
                   _page |-> None, _started |-> FALSE]
    /\ recorder_pc = "idle"
    /\ recorder_last = [op |-> "__init__", out |-> "returned", acted |-> FALSE,
                        recording |-> FALSE]
    /\ context_urls = <<>>
    /\ saved_har = NoFile

\* the is_recording property
is_recording == recorder._started

\* history: a call has ended; `recording` says whether a start() has completed
\* with no stop() after it
Ended(op, out, acted) ==
    recorder_last' =
        [op |-> op, out |-> out, acted |-> acted,
         recording |-> CASE op = "start" /\ out = "returned" -> TRUE
                         [] op = "stop"  /\ out = "returned" -> FALSE
                         [] OTHER -> recorder_last.recording]

\* history: a call waits at an await
Awaits(op, acted) ==
    recorder_last' = [recorder_last EXCEPT !.op = op, !.out = "await",
                                           !.acted = acted]

\* start(cdp_url) up to `await async_playwright().start()`
HarStart ==
    /\ recorder_pc = "idle"
    /\ IF recorder._started
       THEN /\ Ended("start", "returned", FALSE)
            /\ UNCHANGED <<recorder, recorder_pc>>
       ELSE /\ recorder_pc' = "async_playwright_start"
            /\ Awaits("start", FALSE)
            /\ UNCHANGED recorder
    /\ UNCHANGED <<context_urls, saved_har>>
    /\ UNCHANGED <<progVars, envVars, histVars>>

\* an await of start() returns (ok: field is bound to the result, start() goes
\* on to next) or raises (~ok: start() has no try, the exception leaves it);
\* a new context has recorded nothing yet
HarStartStep(field, next, ok) ==
    /\ IF ok
       THEN /\ recorder' = [recorder EXCEPT ![field] = Handle]
            /\ recorder_pc' = next
            /\ Awaits("start", FALSE)
       ELSE /\ recorder_pc' = "idle"
            /\ Ended("start", "raised", FALSE)
            /\ UNCHANGED recorder
    /\ context_urls' = IF ok /\ field = "_context" THEN <<>> ELSE context_urls
    /\ UNCHANGED saved_har
    /\ UNCHANGED <<progVars, envVars, histVars>>

\* `self._playwright = await async_playwright().start()`
HarPlaywrightStartReply(ok) ==
    /\ recorder_pc = "async_playwright_start"
    /\ HarStartStep("_playwright", "connect_over_cdp", ok)

\* `self._browser = await self._playwright.chromium.connect_over_cdp(cdp_url)`
HarConnectReply(ok) ==
    /\ recorder_pc = "connect_over_cdp"
    /\ HarStartStep("_browser", "new_context", ok)

\* `self._context = await self._browser.new_context(...)`
HarNewContextReply(ok) ==
    /\ recorder_pc = "new_context"
    /\ HarStartStep("_context", "new_page", ok)

\* `self._page = await self._context.new_page()`, then `self._started = True`
HarNewPageReply(ok) ==
    /\ recorder_pc = "new_page"
    /\ recorder_pc' = "idle"
    /\ IF ok
       THEN /\ recorder' = [recorder EXCEPT !._page = Handle, !._started = TRUE]
            /\ Ended("start", "returned", FALSE)
       ELSE /\ Ended("start", "raised", FALSE)
            /\ UNCHANGED recorder
    /\ UNCHANGED <<context_urls, saved_har>>
    /\ UNCHANGED <<progVars, envVars, histVars>>

\* navigate(url): `if self._page and self._started:` await goto, else return
\* (the context records the attempt whether goto succeeds or not)
HarNavigate(url) ==
    /\ recorder_pc = "idle"
    /\ IF recorder._page # None /\ recorder._started
       THEN /\ recorder_pc' = "goto"
            /\ context_urls' = Append(context_urls, url)
            /\ Awaits("navigate", TRUE)
       ELSE /\ Ended("navigate", "returned", FALSE)
            /\ UNCHANGED <<recorder_pc, context_urls>>
    /\ UNCHANGED <<recorder, saved_har>>
    /\ UNCHANGED <<progVars, envVars, histVars>>

\* the awaited goto returns or raises; `except Exception: pass`
HarGotoReply(ok) ==
    /\ recorder_pc = "goto"
    /\ recorder_pc' = "idle"
    /\ Ended("navigate", "returned", TRUE)
    /\ UNCHANGED <<recorder, context_urls, saved_har>>
    /\ UNCHANGED <<progVars, envVars, histVars>>

\* the end of stop(): `self._started = False; return self.har_path`
HarStopReturns(rec) ==
    /\ recorder' = [rec EXCEPT !._started = FALSE]
    /\ recorder_pc' = "idle"
    /\ Ended("stop", "returned", TRUE)

\* stop() from `if self._browser:` on, inside the try
HarStopFromBrowser(rec) ==
    LET r1 == [rec EXCEPT !._browser = None] IN
    IF r1._playwright # None
    THEN /\ recorder' = r1
         /\ recorder_pc' = "playwright_stop"
         /\ Awaits("stop", TRUE)
    ELSE HarStopReturns(r1)

\* stop() up to its first await
HarStop ==
    /\ recorder_pc = "idle"
    /\ IF ~recorder._started
       THEN /\ Ended("stop", "returned", FALSE)
            /\ UNCHANGED <<recorder, recorder_pc>>
       ELSE IF recorder._context # None
            THEN /\ recorder_pc' = "context_close"
                 /\ Awaits("stop", TRUE)
                 /\ UNCHANGED recorder
            ELSE HarStopFromBrowser(recorder)
    /\ UNCHANGED <<context_urls, saved_har>>
    /\ UNCHANGED <<progVars, envVars, histVars>>

\* `await self._context.close()` returns, Playwright having saved the HAR of
\* the context, or raises into `except Exception`, which logs and falls
\* through to the end of stop()
HarContextCloseReply(ok) ==
    /\ recorder_pc = "context_close"
    /\ IF ok
       THEN /\ HarStopFromBrowser([recorder EXCEPT !._context = None])
            /\ saved_har' = [exists |-> TRUE, urls |-> context_urls]
       ELSE /\ HarStopReturns(recorder)
            /\ UNCHANGED saved_har
    /\ UNCHANGED context_urls
    /\ UNCHANGED <<progVars, envVars, histVars>>

\* `await self._playwright.stop()` returns, or raises into `except Exception`
HarPlaywrightStopReply(ok) ==
    /\ recorder_pc = "playwright_stop"
    /\ IF ok
       THEN HarStopReturns([recorder EXCEPT !._playwright = None])
       ELSE HarStopReturns(recorder)
    /\ UNCHANGED <<context_urls, saved_har>>
    /\ UNCHANGED <<progVars, envVars, histVars>>

----------------------------------------------------------------------------
(* __init__ *)

Sessions == {"s1", "s2"}

Init ==
    /\ _started = FALSE
    /\ _callback_registered = FALSE
    /\ _cdp_client = FALSE
    /\ _session_id = None
    /\ _enabled_sessions = {}
    /\ _entries = <<>>
    /\ _pending_requests = <<>>
    /\ _pending_extra_info = {}
    /\ register_calls = 0
    /\ har_file = NoFile
    /\ pc = "idle"
    /\ loop_sids = <<>>
    /\ tasks = <<>>
    /\ enable_cmds = [s \in Sessions \cup {None} |-> 0]
    /\ disable_cmds = 0
    /\ clock = 1
    /\ nextUid = 1
    /\ starts = 0
    /\ trace = <<>>
    /\ termLog = <<>>
    /\ last = [op |-> "__init__"]
    /\ HarRecorderInit

----------------------------------------------------------------------------
(* The events the CDP client delivers and the calls the owner makes *)

RequestIds == {"r1", "r2"}

GetRequest(u) == [method |-> "GET", url |-> u, headers |-> <<>>]

Response200 ==
    [status |-> 200, statusText |-> "OK", mimeType |-> "text/html",
     headers |-> << <<"Content-Type", "text/html">> >>,
     timing |-> [sendEnd |-> 1, receiveHeadersEnd |-> 3]]

Redirect302 == [status |-> 302, statusText |-> "Found"]

\* Network.requestWillBeSent: a first request, the request that follows a
\* redirect (it carries redirectResponse), and an event without requestId
RequestEvents ==
    {[requestId |-> id, request |-> GetRequest("https://example.test/")] :
        id \in RequestIds}
    \cup {[requestId |-> "r1", request |-> GetRequest("https://example.test/next"),
           redirectResponse |-> Redirect302],
          [request |-> GetRequest("https://example.test/")]}

\* Network.responseReceived: with a response, without one, without requestId
ResponseEvents ==
    {[requestId |-> id, response |-> Response200] : id \in RequestIds}
    \cup {[requestId |-> "r2"], [response |-> Response200]}

\* Network.loadingFinished: the last one has an empty requestId
FinishedEvents ==
    {[requestId |-> id, encodedDataLength |-> 1234] : id \in RequestIds \cup {""}}

\* Network.loadingFailed: errorText given, absent, empty; without requestId
FailedEvents ==
    {[requestId |-> id, errorText |-> "net::ERR_ABORTED"] : id \in RequestIds}
    \cup {[requestId |-> "r1"], [requestId |-> "r1", errorText |-> ""],
          [errorText |-> "net::ERR_ABORTED"]}

WriteResults == {"ok", "open_fails", "dump_fails"}

PlainRequest(id) ==
    [requestId |-> id, request |-> GetRequest("https://example.test/")]

----------------------------------------------------------------------------
(* Spec: the request ledger on its success path, with redirects, under
   start(cdp_client) and stop() *)

RequestWillBeSent ==
    \E event \in RequestEvents : nextUid <= MaxReq /\ OnRequestWillBeSent(event)

\* the events without a usable requestId are delivered in SpecFail
ResponseReceived ==
    \E event \in ResponseEvents \ {[response |-> Response200]} :
        OnResponseReceived(event)

LoadingFinished ==
    \E event \in {e \in FinishedEvents : e.requestId # ""} :
        OnLoadingFinished(event)

Start == (_started \/ starts < MaxStarts) /\ StartCall(NoSession, None)

StartRootReturns == \E ok \in BOOLEAN : StartRootReply(ok)

Stop == StopCall("ok")

StopDisableReturns == \E ok \in BOOLEAN : StopDisableReply(ok, "ok")

Next ==
    \/ Start
    \/ StartRootReturns
    \/ RequestWillBeSent
    \/ ResponseReceived
    \/ LoadingFinished
    \/ Stop
    \/ StopDisableReturns

Spec == Init /\ [][Next]_vars

----------------------------------------------------------------------------
(* SpecFail: requests that end in Network.loadingFailed, and events that find
   no pending entry *)

FailRequestWillBeSent ==
    \E id \in RequestIds :
        nextUid <= MaxReq /\ OnRequestWillBeSent(PlainRequest(id))

FailResponseReceived ==
    \E event \in {[requestId |-> "r1", response |-> Response200],
                  [response |-> Response200]} : OnResponseReceived(event)

FailLoadingFinished ==
    \E event \in {[requestId |-> "r2", encodedDataLength |-> 1234],
                  [requestId |-> "", encodedDataLength |-> 1234]} :
        OnLoadingFinished(event)

FailLoadingFailed == \E event \in FailedEvents : OnLoadingFailed(event)

NextFail ==
    \/ Start
    \/ StartRootReturns
    \/ FailRequestWillBeSent
    \/ FailResponseReceived
    \/ FailLoadingFinished
    \/ FailLoadingFailed
    \/ Stop
    \/ StopDisableReturns

SpecFail == Init /\ [][NextFail]_vars

----------------------------------------------------------------------------
(* SpecStop: stop() with a Network.disable and a file write that may fail,
   and the events that arrive before, during and after it *)

StopRequestWillBeSent ==
    \E id \in RequestIds :
        nextUid <= MaxReq /\ OnRequestWillBeSent(PlainRequest(id))

StopResponseReceived ==
    OnResponseReceived([requestId |-> "r1", response |-> Response200])

StopLoadingFinished ==
    OnLoadingFinished([requestId |-> "r1", encodedDataLength |-> 1234])

StopMayFail == \E wr \in WriteResults : StopCall(wr)

StopMayFailDisableReturns ==
    \E ok \in BOOLEAN, wr \in WriteResults : StopDisableReply(ok, wr)

NextStop ==
    \/ Start
    \/ StartRootReturns
    \/ StopRequestWillBeSent
    \/ StopResponseReceived
    \/ StopLoadingFinished
    \/ StopMayFail
    \/ StopMayFailDisableReturns

SpecStop == Init /\ [][NextStop]_vars

----------------------------------------------------------------------------
(* SpecMerge: requestWillBeSentExtraInfo before and after requestWillBeSent *)

HeaderDicts == {<<>>, << <<"Accept", "text/html">> >>}

ExtraHeaderDicts ==
    {<<>>,
     << <<"Cookie", "a=1">>, <<"Accept", "*/*">> >>,
     << <<"Cookie", "b=2">> >>}

MergeRequestEvents ==
    {[requestId |-> "r1",
      request |-> [method |-> "GET", url |-> "https://example.test/",
                   headers |-> h]] : h \in HeaderDicts}

ExtraInfoEvents ==
    {[requestId |-> "r1", headers |-> h] : h \in ExtraHeaderDicts}
    \cup {[requestId |-> "r1"], [headers |-> << <<"Cookie", "b=2">> >>]}

MergeRequestWillBeSent ==
    \E event \in MergeRequestEvents :
        nextUid <= MaxReq /\ OnRequestWillBeSent(event)

MergeRequestWillBeSentExtraInfo ==
    \E event \in ExtraInfoEvents : OnRequestWillBeSentExtraInfo(event)

MergeLoadingFinished ==
    OnLoadingFinished([requestId |-> "r1", encodedDataLength |-> 1234])

NextMerge ==
    \/ Start
    \/ StartRootReturns
    \/ MergeRequestWillBeSent
    \/ MergeRequestWillBeSentExtraInfo
    \/ MergeLoadingFinished
    \/ Stop
    \/ StopDisableReturns

SpecMerge == Init /\ [][NextMerge]_vars

----------------------------------------------------------------------------
(* SpecReuse: the events of SpecMerge on a recorder that is not stopped, so
   that r1 is used by one request after the other *)

NextReuse ==
    \/ Start
    \/ StartRootReturns
    \/ MergeRequestWillBeSent
    \/ MergeRequestWillBeSentExtraInfo
    \/ MergeLoadingFinished

SpecReuse == Init /\ [][NextReuse]_vars

----------------------------------------------------------------------------
(* SpecSessions: start(cdp_client, browser_session, session_id), the sessions
   it enables, Target.attachedToTarget, and a request in flight *)

BrowserSessions ==
    {NoSession, [session_manager |-> [_sessions |-> <<"s1", "s2">>]]}

TargetEvents ==
    {[sessionId |-> sid, targetInfo |-> [type |-> "page"]] : sid \in Sessions}
    \cup {[sessionId |-> "s2", targetInfo |-> [type |-> "service_worker"]]}

SessStart ==
    \E browser_session \in BrowserSessions :
        /\ _started \/ starts < MaxStarts
        /\ StartCall(browser_session, None)

SessStartEnableReturns == \E ok \in BOOLEAN : StartEnableReply(ok)

\* the page targets; the other targets are attached in SpecTargets
SessTargetAttached ==
    \E event \in {e \in TargetEvents : e.targetInfo.type = "page"} :
        OnTargetAttached(event)

SessEnableNetworkForSession == \E ok \in BOOLEAN : EnableNetworkForSession(ok)

SessRequestWillBeSent ==
    nextUid <= MaxReq /\ OnRequestWillBeSent(PlainRequest("r1"))

SessRequestWillBeSentExtraInfo ==
    OnRequestWillBeSentExtraInfo(
        [requestId |-> "r2", headers |-> << <<"Cookie", "b=2">> >>])

NextSessions ==
    \/ SessStart
    \/ SessStartEnableReturns
    \/ StartRootReturns
    \/ SessTargetAttached
    \/ SessEnableNetworkForSession
    \/ SessRequestWillBeSent
    \/ SessRequestWillBeSentExtraInfo
    \/ MergeLoadingFinished
    \/ Stop
    \/ StopDisableReturns

SpecSessions == Init /\ [][NextSessions]_vars

----------------------------------------------------------------------------
(* SpecShape: payloads with missing, empty and wrongly shaped fields *)

\* Network.requestWillBeSent for r1: complete, without `request`, with an
\* empty method and url, and with a `request` that is not a dict
ShapeRequestEvents ==
    {PlainRequest("r1"),
     [requestId |-> "r1"],
     [requestId |-> "r1", request |-> [method |-> "", url |-> ""]],
     [requestId |-> "r1", request |-> NotADict]}

\* Network.responseReceived for r1: complete, with `headers` that are not a
\* dict, and with a `response` that is not a dict
ShapeResponseEvents ==
    {[requestId |-> "r1", response |-> Response200],
     [requestId |-> "r1",
      response |-> [status |-> 200, statusText |-> "OK",
                    headers |-> NotAHeaderDict]],
     [requestId |-> "r1", response |-> NotADict]}

ShapeRequestWillBeSent ==
    \E event \in ShapeRequestEvents :
        nextUid <= MaxReq /\ OnRequestWillBeSent(event)

ShapeResponseReceived ==
    \E event \in ShapeResponseEvents : OnResponseReceived(event)

NextShape ==
    \/ Start
    \/ StartRootReturns
    \/ ShapeRequestWillBeSent
    \/ ShapeResponseReceived
    \/ MergeLoadingFinished

SpecShape == Init /\ [][NextShape]_vars

----------------------------------------------------------------------------
(* SpecTiming: responses with a complete, a partial and no `timing` *)

\* the `timing` of a response: both values, or one of the two
TimingDicts ==
    {[sendEnd |-> 1, receiveHeadersEnd |-> 3],
     [receiveHeadersEnd |-> 3],
     [sendEnd |-> 1]}

\* Network.responseReceived for r1: with each timing, and without timing
TimingResponseEvents ==
    {[requestId |-> "r1", response |-> [status |-> 200, timing |-> t]] :
        t \in TimingDicts}
    \cup {[requestId |-> "r1", response |-> [status |-> 200]]}

TimingRequestWillBeSent ==
    nextUid <= MaxReq /\ OnRequestWillBeSent(PlainRequest("r1"))

TimingResponseReceived ==
    \E event \in TimingResponseEvents : OnResponseReceived(event)

NextTiming ==
    \/ Start
    \/ StartRootReturns
    \/ TimingRequestWillBeSent
    \/ TimingResponseReceived
    \/ MergeLoadingFinished

SpecTiming == Init /\ [][NextTiming]_vars

----------------------------------------------------------------------------
(* SpecTargets: Target.attachedToTarget for pages and workers, with and
   without a session id, and the Network.enable tasks it schedules *)

AttachEvents ==
    TargetEvents
    \cup {[targetInfo |-> [type |-> "page"]], [sessionId |-> "s1"]}

TargetsAttached == \E event \in AttachEvents : OnTargetAttached(event)

NextTargets ==
    \/ SessStart
    \/ SessStartEnableReturns
    \/ StartRootReturns
    \/ TargetsAttached
    \/ SessEnableNetworkForSession
    \/ Stop
    \/ StopDisableReturns

SpecTargets == Init /\ [][NextTargets]_vars

----------------------------------------------------------------------------
(* SpecRestart: the recorder is started again after stop() *)

\* how many times start() may begin a capture again after the first
MaxRestarts == 1

RestartStart ==
    /\ _started \/ starts < MaxStarts + MaxRestarts
    /\ StartCall(NoSession, None)

NextRestart ==
    \/ RestartStart
    \/ StartRootReturns
    \/ StopRequestWillBeSent
    \/ StopLoadingFinished
    \/ Stop
    \/ StopDisableReturns

SpecRestart == Init /\ [][NextRestart]_vars

----------------------------------------------------------------------------
(* SpecHarRecorder: start(), navigate() and stop() of the Playwright-based
   recorder, one call after the other, every external step failing or not *)

HarStartReturns ==
    \E ok \in BOOLEAN :
        \/ HarPlaywrightStartReply(ok)
        \/ HarConnectReply(ok)
        \/ HarNewContextReply(ok)
        \/ HarNewPageReply(ok)

Urls == {"https://example.test/", "https://example.test/next"}

HarNavigateCall ==
    \E url \in Urls :
        /\ ~is_recording \/ Len(context_urls) < MaxNav
        /\ HarNavigate(url)

HarNavigateReturns == \E ok \in BOOLEAN : HarGotoReply(ok)

HarStopContinues ==
    \E ok \in BOOLEAN : HarContextCloseReply(ok) \/ HarPlaywrightStopReply(ok)

NextHarRecorder ==
    \/ HarStart
    \/ HarStartReturns
    \/ HarNavigateCall
    \/ HarNavigateReturns
    \/ HarStop
    \/ HarStopContinues

SpecHarRecorder == Init /\ [][NextHarRecorder]_vars

----------------------------------------------------------------------------
(* SpecLifetime: the session set over a capture: start() with known sessions,
   Target.attachedToTarget, the scheduled tasks, a request, and stop() *)

NextLifetime ==
    \/ SessStart
    \/ SessStartEnableReturns
    \/ StartRootReturns
    \/ SessTargetAttached
    \/ SessEnableNetworkForSession
    \/ SessRequestWillBeSent
    \/ MergeLoadingFinished
    \/ Stop
    \/ StopDisableReturns

SpecLifetime == Init /\ [][NextLifetime]_vars

----------------------------------------------------------------------------
(* Invariants of the model *)

TypeOK ==
    /\ _started \in BOOLEAN
    /\ Len(_pending_requests) = Cardinality(PendingIds)
    /\ nextUid = Len(trace) + 1
    /\ clock = nextUid
    /\ register_calls <= 1

----------------------------------------------------------------------------
(* What the history variables say about entry objects *)

Uids == 1..Len(trace)

PendingUids == {_pending_requests[i].uid : i \in 1..Len(_pending_requests)}

\* positions of the entry object u in the output collection
OutputPositions(u) == {i \in 1..Len(_entries) : _entries[i].uid = u}

OutputEntry(u) == _entries[CHOOSE i \in OutputPositions(u) : TRUE]

\* requestWillBeSent events accepted for id
HopsOf(id) == Cardinality({u \in Uids : trace[u].req.requestId = id})

\* entries of the output collection recorded for id
EntriesOf(id) ==
    Cardinality({i \in 1..Len(_entries) : _entries[i]._requestId = id})

\* position of the entry object u in the order of terminal transitions
TermPos(u) == CHOOSE i \in 1..Len(termLog) : termLog[i] = u

\* the status a responseReceived event carries, if any
CarriesStatus(event) ==
    "response" \in DOMAIN event /\ "status" \in DOMAIN event.response

\* this step is a requestWillBeSent that created the entry object nextUid
RequestAccepted == nextUid' = nextUid + 1

----------------------------------------------------------------------------
(* C1 *)

\* C1: a redirect chain of N requestWillBeSent events sharing one requestId,
\* once it has ended (the id has no pending entry any more), has left exactly
\* N entries in the output collection, one per hop.
C1_OneEntryPerHop ==
    \A id \in RequestIds : id \notin PendingIds => EntriesOf(id) = HopsOf(id)

----------------------------------------------------------------------------
(* C2 *)

\* C2: when requestWillBeSent arrives for an id that has a pending entry, the
\* prior entry is in the output collection after the step, its redirectURL is
\* the new request's URL and its status is that of the redirectResponse.
C2_PriorHopFinalizedOnRedirect ==
    [][\A id \in RequestIds :
          (RequestAccepted /\ trace'[nextUid].req.requestId = id
                           /\ id \in PendingIds)
          => LET prior == PendingEntry(id).uid
                 event == trace'[nextUid].req
             IN  \E i \in 1..Len(_entries') :
                    /\ _entries'[i].uid = prior
                    /\ _entries'[i].response.redirectURL = event.request.url
                    /\ "redirectResponse" \in DOMAIN event
                       => _entries'[i].response.status =
                              event.redirectResponse.status]_vars

----------------------------------------------------------------------------
(* C3 *)

\* the entry object u was hit by responseReceived and then by loadingFinished
RespondedAndFinished(u) ==
    trace[u].resp # NoEvent /\ trace[u].term = "finished"

\* u stands in the output in the order of its terminal event
InTerminalOrder(u) ==
    \A j \in 1..Len(_entries) :
        LET v == _entries[j].uid IN
        v # u => \A i \in OutputPositions(u) : i < j <=> TermPos(u) < TermPos(v)

\* C3 as stated: after requestWillBeSent -> responseReceived ->
\* loadingFinished on one id, the entry has a non-zero status, is exactly once
\* in the output and stands there in the order of its terminal event.
C3_FinishedNonZeroOnceInOrder ==
    \A u \in Uids :
        RespondedAndFinished(u)
        => /\ Cardinality(OutputPositions(u)) = 1
           /\ OutputEntry(u).response.status # 0
           /\ InTerminalOrder(u)

\* C3 amended: the entry has the status the responseReceived payload carries
\* (so a non-zero one whenever the payload carries a non-zero one) and status
\* 0 when the payload carries none; it is exactly once in the output, not
\* pending any more, and stands in the order of its terminal event.
C3_FinishedPayloadStatusOnceInOrder ==
    \A u \in Uids :
        RespondedAndFinished(u)
        => /\ Cardinality(OutputPositions(u)) = 1
           /\ u \notin PendingUids
           /\ OutputEntry(u).response.status =
                  (IF CarriesStatus(trace[u].resp)
                   THEN trace[u].resp.response.status ELSE 0)
           /\ InTerminalOrder(u)

\* two requests are in the output, the later one finished first, and one of
\* them went through responseReceived with status 200 and loadingFinished
C3_Witness ==
    /\ Len(_entries) = 2
    /\ _entries[1].uid = 2
    /\ \E u \in Uids :
          /\ RespondedAndFinished(u)
          /\ CarriesStatus(trace[u].resp)
          /\ OutputEntry(u).response.status = 200

----------------------------------------------------------------------------
(* C4 *)

\* C4: an entry hit by loadingFailed has left pending and is exactly once in
\* the output, with status 0 and a non-empty status text: the event's
\* errorText, or "Failed" if absent.
C4_FailedStatusZeroTextNonEmpty ==
    \A u \in Uids :
        trace[u].term = "failed"
        => /\ u \notin PendingUids
           /\ Cardinality(OutputPositions(u)) = 1
           /\ OutputEntry(u).response.status = 0
           /\ OutputEntry(u).response.statusText # ""
           /\ OutputEntry(u).response.statusText =
                  Get(trace[u].by, "errorText", "Failed")

----------------------------------------------------------------------------
(* C5 *)

HeaderNames(list) == {list[i].name : i \in 1..Len(list)}

\* the values the header list gives for name, in order
ValuesOf(list, name) ==
    LET hits == SelectSeq(list, LAMBDA h : h.name = name)
    IN  [i \in 1..Len(hits) |-> hits[i].value]

IsPrefix(a, b) == Len(a) <= Len(b) /\ SubSeq(b, 1, Len(a)) = a

\* new is old with the headers of the dict extra merged in: what old holds
\* stays in place, and each name of extra that old lacks comes once, with
\* the value extra gives it
MergedInto(old, extra, new) ==
    /\ IsPrefix(old, new)
    /\ HeaderNames(new) = HeaderNames(old) \cup Names(extra)
    /\ \A n \in HeaderNames(new) : ValuesOf(new, n) = ValuesOf(old, n)
                                   \/ /\ n \notin HeaderNames(old)
                                      /\ ValuesOf(new, n) = <<HeaderGet(extra, n, None)>>

\* C5: extraInfo that arrives while the entry is pending is merged at once,
\* extraInfo that arrived before requestWillBeSent is cached and merged when
\* requestWillBeSent arrives, and in both cases a header name the entry
\* already has keeps its first value and is not duplicated.
C5_ExtraInfoMergedFirstValueWins ==
    [][\A id \in RequestIds :
          /\ (/\ last'.op = "requestWillBeSentExtraInfo"
              /\ last'.id = id
              /\ last' # last
              /\ id \in PendingIds)
             => /\ id \in PendingIds'
                /\ PendingEntry(id)'.uid = PendingEntry(id).uid
                /\ MergedInto(PendingEntry(id).request.headers,
                              last'.headers,
                              PendingEntry(id)'.request.headers)
          /\ (/\ last'.op = "requestWillBeSentExtraInfo"
              /\ last'.id = id
              /\ last' # last
              /\ id \notin PendingIds)
             => <<id, [headers |-> last'.headers]>> \in _pending_extra_info'
          /\ (/\ RequestAccepted
              /\ trace'[nextUid].req.requestId = id
              /\ id \in CachedIds)
             => /\ id \notin CachedIds'
                /\ MergedInto(
                       _format_headers(
                           Get(trace'[nextUid].req.request, "headers", <<>>)),
                       CachedFor(id).headers,
                       PendingEntry(id)'.request.headers)]_vars

\* requestWillBeSent with its own Accept header has just found a cached
\* extraInfo with Cookie a=1 and another Accept: the new pending entry has its
\* own Accept, then Cookie a=1, and the cache has lost the record
C5_Witness ==
    /\ last.op = "requestWillBeSent"
    /\ last.id \in PendingIds
    /\ last.id \notin CachedIds
    /\ PendingEntry(last.id).uid = last.hit
    /\ trace[last.hit].req.request.headers = << <<"Accept", "text/html">> >>
    /\ PendingEntry(last.id).request.headers =
           << [name |-> "Accept", value |-> "text/html"],
              [name |-> "Cookie", value |-> "a=1"] >>

----------------------------------------------------------------------------
(* C6 *)

\* this step is the end of a stop() that was not a no-op
StopReturns == pc = "stop_await_disable" /\ pc' = "idle"

\* C6: the drain of stop() appends exactly the K pending entries to the
\* output, each as it was while pending, leaves the entries already in the
\* output as they were, and leaves the pending set empty.
C6_DrainAppendsPendingUnchanged ==
    [][StopReturns
       => /\ Len(_entries') = Len(_entries) + Len(_pending_requests)
          /\ SubSeq(_entries', 1, Len(_entries)) = _entries
          /\ \A k \in 1..Len(_pending_requests) :
                Cardinality({i \in Len(_entries) + 1..Len(_entries') :
                                _entries'[i] = _pending_requests[k]}) = 1
          /\ _pending_requests' = <<>>]_vars

\* stop() has returned after draining two entries, one of them holding the
\* data of a response
C6_Witness ==
    /\ last.op = "stop" /\ last.ret = HarPath /\ ~last.noop
    /\ Cardinality({u \in Uids : trace[u].term = "drained"}) = 2
    /\ \E u \in Uids :
          /\ trace[u].term = "drained"
          /\ trace[u].resp # NoEvent
          /\ OutputPositions(u) # {}
          /\ OutputEntry(u).response.status = 200

----------------------------------------------------------------------------
(* C7 *)

OrphanOps == {"responseReceived", "loadingFinished", "loadingFailed"}

\* C7: responseReceived, loadingFinished or loadingFailed whose requestId has
\* no pending entry (unknown, already finalized, missing or empty) leaves the
\* pending set, the output collection and the extraInfo cache unchanged.
C7_OrphanEventChangesNothing ==
    [][(last'.op \in OrphanOps /\ last'.id \notin PendingIds)
       => UNCHANGED <<_pending_requests, _entries, _pending_extra_info>>]_vars

\* loadingFailed has just arrived for r1, whose entry is already in the
\* output, while another entry is pending
C7_Witness ==
    /\ last.op = "loadingFailed" /\ last.id = "r1" /\ last.hit = 0
    /\ EntriesOf("r1") = 1
    /\ "r1" \notin PendingIds
    /\ _pending_requests # <<>>

----------------------------------------------------------------------------
(* C8 *)

\* stop() has drained and returned, and start() has not been called since
Stopped == starts > 0 /\ ~_started /\ pc = "idle"

EventOps == OrphanOps \cup {"requestWillBeSent", "requestWillBeSentExtraInfo"}

\* C8: once stop() has drained, and at every later point after it has
\* returned, no event handler adds to or changes the pending set or the
\* output collection.
C8_NoTransitionAfterStop ==
    [][(Stopped /\ last'.op \in EventOps)
       => UNCHANGED <<_pending_requests, _entries>>]_vars

----------------------------------------------------------------------------
(* C9 *)

\* C9: stop() returns the configured path and never raises: called on a
\* recorder that is not started it changes nothing (no Network.disable, no
\* drain, no write); otherwise, whether or not Network.disable and the write
\* fail, it returns the path and leaves the recorder not recording.
C9_StopReturnsPath ==
    [][/\ (pc = "idle" /\ ~_started /\ last'.op = "stop")
          => /\ last'.ret = HarPath
             /\ UNCHANGED <<progVars, envVars>>
       /\ (pc = "stop_await_disable" /\ last' # last)
          => \/ last'.op \in EventOps
             \/ /\ last'.op = "stop"
                /\ last'.ret = HarPath
                /\ ~_started'
                /\ pc' = "idle"]_vars

\* stop() has returned the path although json.dump failed: the file is
\* truncated, the pending entry is drained, the recorder is not recording
C9_Witness ==
    /\ last.op = "stop" /\ last.ret = HarPath /\ last.wr = "dump_fails"
    /\ har_file = [exists |-> TRUE, complete |-> FALSE]
    /\ ~_started
    /\ _entries # <<>>

----------------------------------------------------------------------------
(* C10 *)

\* C10: start() on a recorder that is already started is a no-op: no
\* callback is registered again, no Network.enable is sent, and the session
\* set, the pending set, the cache and the output collection are unchanged.
C10_SecondStartIsNoop ==
    [][(_started /\ pc = "idle" /\ last'.op = "start")
       => UNCHANGED <<progVars, envVars>>]_vars

\* start() has just returned from its already-started guard on a recorder
\* that has enabled sessions, a pending entry, a cached extraInfo and an
\* entry in the output
C10_Witness ==
    /\ last = [op |-> "start", ret |-> "noop"]
    /\ _started
    /\ _enabled_sessions # {}
    /\ _pending_requests # <<>>
    /\ _pending_extra_info # {}
    /\ _entries # <<>>

----------------------------------------------------------------------------
(* C11 *)

\* C11: every entry of the output collection has a non-empty request.method
\* and a non-empty request.url, whatever the requestWillBeSent payload held.
C11_OutputMethodAndUrlNonEmpty ==
    \A i \in 1..Len(_entries) :
        _entries[i].request.method # "" /\ _entries[i].request.url # ""

----------------------------------------------------------------------------
(* C15 *)

\* both timing values are present in the response of the event
HasBothTimings(event) ==
    /\ "timing" \in DOMAIN event.response
    /\ {"sendEnd", "receiveHeadersEnd"} \subseteq DOMAIN event.response.timing

\* C15: after the first responseReceived on a pending entry, timings.wait is
\* receiveHeadersEnd - sendEnd when the response carries both values, and is
\* zero in every other case (no timing, or one of the two values only).
C15_WaitFromBothTimingsElseZero ==
    [][\A i \in 1..Len(_pending_requests) :
          LET u     == _pending_requests[i].uid
              event == trace'[u].resp
          IN  (/\ last'.op = "responseReceived"
               /\ last'.hit = u
               /\ trace[u].resp = NoEvent)
              => _pending_requests'[i].timings.wait =
                     IF HasBothTimings(event)
                     THEN event.response.timing.receiveHeadersEnd
                          - event.response.timing.sendEnd
                     ELSE 0]_vars

----------------------------------------------------------------------------
(* C12 *)

\* this step is requestWillBeSentExtraInfo for id
ExtraInfoArrives(id) ==
    /\ last'.op = "requestWillBeSentExtraInfo"
    /\ last'.id = id
    /\ last' # last

\* C12: the extraInfo cache holds at most one record per request id and none
\* for an id that has a pending entry; an early extraInfo replaces the record
\* its id already has, an extraInfo for a pending id is not cached, and
\* requestWillBeSent removes the record of its id, with or without headers.
C12_CacheOneRecordPerIdUntilRequest ==
    [][/\ Cardinality(_pending_extra_info') = Cardinality(CachedIds')
       /\ CachedIds' \cap PendingIds' = {}
       /\ \A id \in RequestIds :
             /\ (ExtraInfoArrives(id) /\ id \notin PendingIds)
                => _pending_extra_info' =
                       {c \in _pending_extra_info : c[1] # id}
                       \cup {<<id, [headers |-> last'.headers]>>}
             /\ (ExtraInfoArrives(id) /\ id \in PendingIds)
                => UNCHANGED _pending_extra_info
             /\ (RequestAccepted /\ trace'[nextUid].req.requestId = id)
                => _pending_extra_info' =
                       {c \in _pending_extra_info : c[1] # id}]_vars

\* an early extraInfo without headers has just been cached for r1, whose
\* earlier entry is already in the output
C12_Witness ==
    /\ last.op = "requestWillBeSentExtraInfo" /\ last.id = "r1" /\ last.hit = 0
    /\ last.headers = <<>>
    /\ _pending_extra_info = {<<"r1", [headers |-> <<>>]>>}
    /\ EntriesOf("r1") = 1

----------------------------------------------------------------------------
(* C13 *)

\* C13: every cached extraInfo record is destroyed in the end: when stop()
\* has drained and returned, the extraInfo cache is empty.
C13_CacheEmptyAfterStop ==
    (last.op = "stop" /\ ~last.noop /\ pc = "idle") => _pending_extra_info = {}

----------------------------------------------------------------------------
(* C14 *)

\* C14: Target.attachedToTarget adds the session id to the session set and
\* schedules exactly one Network.enable for it if and only if the target is a
\* page, the id is not empty and the id is not in the set yet; otherwise it
\* changes neither.  The handler sends no command itself; the scheduled task
\* sends one Network.enable and, whether that succeeds or fails, schedules
\* nothing again and leaves the session set as it is.
C14_PageSessionEnabledOnce ==
    [][/\ last'.op = "attachedToTarget"
          => /\ IF /\ last'.type = "page"
                   /\ Truthy(last'.id)
                   /\ last'.id \notin _enabled_sessions
                THEN /\ _enabled_sessions' = _enabled_sessions \cup {last'.id}
                     /\ tasks' = Append(tasks, last'.id)
                ELSE UNCHANGED <<_enabled_sessions, tasks>>
             /\ UNCHANGED enable_cmds
       /\ last'.op = "_enable_network_for_session"
          => /\ UNCHANGED _enabled_sessions
             /\ tasks' = Tail(tasks)
             /\ \A sid \in DOMAIN enable_cmds :
                   enable_cmds'[sid] =
                       enable_cmds[sid] + (IF sid = last'.sid THEN 1 ELSE 0)]_vars

\* the Network.enable scheduled for the page session s1 has failed: s1 is
\* still in the session set, one command was sent for it, nothing is scheduled
C14_Witness ==
    /\ last = [op |-> "_enable_network_for_session", sid |-> "s1", ok |-> FALSE]
    /\ "s1" \in _enabled_sessions
    /\ enable_cmds["s1"] = 1
    /\ tasks = <<>>

----------------------------------------------------------------------------
(* C16 *)

\* C16: no event handler lets an exception out, and an event with a wrongly
\* shaped payload leaves the pending set, the output collection and the
\* extraInfo cache as they were, so that every later event is handled as if
\* the malformed one had not been delivered.
C16_MalformedEventChangesNothing ==
    [][(last'.op \in {"requestWillBeSent", "responseReceived"} /\ last'.bad)
       => UNCHANGED <<_pending_requests, _entries, _pending_extra_info>>]_vars

----------------------------------------------------------------------------
(* C17 *)

\* entry objects that are pending before this step and not after it
LeavePending == PendingUids \ PendingUids'

\* C17: an entry goes from pending to the output and nowhere else:
\* responseReceived leaves its entry pending and the output as it was; an
\* entry leaves the pending set only in a step of loadingFinished,
\* loadingFailed, requestWillBeSent for its id or stop(), and is in the output
\* after that step; an entry of the output never changes and is never pending
\* again.
C17_PendingThenFinalizedForGood ==
    [][/\ (last'.op = "responseReceived" /\ last'.hit # 0)
          => /\ last'.hit \in PendingUids'
             /\ UNCHANGED _entries
       /\ \A u \in LeavePending :
             /\ last'.op \in {"loadingFinished", "loadingFailed",
                              "requestWillBeSent", "stop"}
             /\ OutputPositions(u)' # {}
       /\ Len(_entries') >= Len(_entries)
       /\ \A i \in 1..Len(_entries) :
             /\ _entries'[i] = _entries[i]
             /\ _entries[i].uid \notin PendingUids']_vars

----------------------------------------------------------------------------
(* C18 *)

\* stop() has just drained, written the file and returned
StopWroteFile ==
    last.op = "stop" /\ ~last.noop /\ last.wr = "ok" /\ pc = "idle"

\* C18: the output collection holds the entries in the order in which they
\* left the pending set (by loadingFinished or loadingFailed, then by the
\* drain of stop()), and the entry list of the document stop() writes is the
\* output collection in that order, not sorted by start time.
C18_DocumentInAppendOrder ==
    /\ [i \in 1..Len(_entries) |-> _entries[i].uid] = termLog
    /\ StopWroteFile
       => /\ har_file.exists /\ har_file.complete
          /\ har_file.har.log.entries = _entries

\* the written document holds two entries: first the one that started later
\* and was finished by loadingFinished, then the one that started earlier and
\* was drained by stop()
C18_Witness ==
    /\ StopWroteFile
    /\ Len(har_file.har.log.entries) = 2
    /\ LET first  == har_file.har.log.entries[1]
           second == har_file.har.log.entries[2]
       IN  /\ first.startedDateTime.iso > second.startedDateTime.iso
           /\ trace[first.uid].term = "finished"
           /\ trace[second.uid].term = "drained"

----------------------------------------------------------------------------
(* C19 *)

\* the request headers of the entry when extraInfo with the headers extra
\* comes first and is cached, and requestWillBeSent (event) comes second
ViaCacheRoute(event, extra) ==
    ApplyCachedExtraInfo(BuildEntry(event, 0, 0),
                         CachePut({}, event.requestId, extra)).request.headers

\* the same when requestWillBeSent comes first and extraInfo second
DirectRoute(event, extra) ==
    MergeIntoPending(BuildEntry(event, 0, 0), extra).request.headers

\* the entry holds the headers of its requestWillBeSent and no others
Unmerged(entry) ==
    entry.request.headers =
        _format_headers(Get(trace[entry.uid].req.request, "headers", <<>>))

\* C19: the merge does not depend on the order of the two events: when
\* extraInfo is merged into a pending entry that holds its own headers only,
\* the header list is the one the cache route gives for the same two
\* payloads, and when requestWillBeSent finds a cached extraInfo, the header
\* list is the one the direct merge gives for the same two payloads.
C19_MergeOrderIndependent ==
    [][\A id \in RequestIds :
          /\ (/\ ExtraInfoArrives(id)
              /\ id \in PendingIds
              /\ Unmerged(PendingEntry(id)))
             => PendingEntry(id)'.request.headers =
                    ViaCacheRoute(trace[PendingEntry(id).uid].req, last'.headers)
          /\ (/\ RequestAccepted
              /\ trace'[nextUid].req.requestId = id
              /\ id \in CachedIds)
             => PendingEntry(id)'.request.headers =
                    DirectRoute(trace'[nextUid].req, CachedFor(id).headers)]_vars

\* extraInfo with Cookie a=1 and another Accept has just been merged into the
\* pending entry of a request that has its own Accept: the header list is the
\* one of C5_Witness, where the same payloads came in the other order
C19_Witness ==
    /\ last.op = "requestWillBeSentExtraInfo"
    /\ last.hit # 0
    /\ last.headers = << <<"Cookie", "a=1">>, <<"Accept", "*/*">> >>
    /\ last.id \in PendingIds
    /\ PendingEntry(last.id).uid = last.hit
    /\ trace[last.hit].req.request.headers = << <<"Accept", "text/html">> >>
    /\ PendingEntry(last.id).request.headers =
           << [name |-> "Accept", value |-> "text/html"],
              [name |-> "Cookie", value |-> "a=1"] >>

----------------------------------------------------------------------------
(* C20 *)

\* the response and timings of an entry that no event has touched yet
BlankResponse ==
    [status |-> 0, statusText |-> "", httpVersion |-> "HTTP/1.1",
     headers |-> <<>>, cookies |-> <<>>,
     content |-> [size |-> 0, mimeType |-> ""],
     redirectURL |-> "", headersSize |-> -1, bodySize |-> -1]

\* entry objects that have been moved to the output
FinalizedUids ==
    {u \in Uids : trace[u].term \in {"finished", "failed", "drained"}}

\* C20: requestWillBeSent for an id whose earlier entry is in the output and
\* which has no pending entry creates a new entry object, built from the new
\* event (and the extraInfo cached for the id since) with a blank response,
\* and leaves the output as it is; an entry of the output is never changed
\* nor pending again, and every finalized entry object stands in the output
\* once, so the two requests end up as two entries.
C20_ReusedIdIsNewEntry ==
    [][/\ \A id \in RequestIds :
             (/\ RequestAccepted
              /\ trace'[nextUid].req.requestId = id
              /\ id \notin PendingIds
              /\ EntriesOf(id) >= 1)
             => LET event == trace'[nextUid].req
                    new   == PendingEntry(id)'
                IN  /\ UNCHANGED _entries
                    /\ new.uid = nextUid
                    /\ new.request.method = Get(event.request, "method", "GET")
                    /\ new.request.url = Get(event.request, "url", "")
                    /\ MergedInto(
                           _format_headers(Get(event.request, "headers", <<>>)),
                           Get(CachedFor(id), "headers", <<>>),
                           new.request.headers)
                    /\ new.response = BlankResponse
                    /\ new.timings = [send |-> 0, wait |-> 0, receive |-> 0]
       /\ \A i \in 1..Len(_entries) :
             /\ _entries'[i] = _entries[i]
             /\ _entries[i].uid \notin PendingUids'
       /\ \A u \in FinalizedUids' : Cardinality(OutputPositions(u)') = 1]_vars

\* r1 was used by two requests, the second after the first was finalized:
\* the output holds two entries for r1, of two entry objects
C20_Witness ==
    /\ Len(_entries) = 2
    /\ _entries[1]._requestId = "r1" /\ _entries[2]._requestId = "r1"
    /\ _entries[1].uid = 1 /\ _entries[2].uid = 2
    /\ trace[1].term = "finished" /\ trace[2].term = "finished"
    /\ _entries[1].request.headers # _entries[2].request.headers

----------------------------------------------------------------------------
(* C21 *)

\* C21: during a capture the session set only grows.  Every step other than
\* the start() that begins a capture (which creates the set anew, empty) keeps
\* every session id that is in the set: the replies to start()'s Network.enable
\* commands, also the failed ones, Target.attachedToTarget, the scheduled
\* Network.enable tasks, also the failed ones, the network events, and stop().
C21_SessionSetOnlyGrows ==
    [][starts' = starts => _enabled_sessions \subseteq _enabled_sessions']_vars

\* stop() has returned after a capture in which start() enabled s1, its
\* Network.enable for s2 failed, and a request was recorded: s1 is still in the
\* session set
C21_Witness ==
    /\ last.op = "stop" /\ ~last.noop /\ last.ret = HarPath
    /\ starts = 1
    /\ enable_cmds["s1"] = 1 /\ enable_cmds["s2"] = 1
    /\ _enabled_sessions = {"s1"}
    /\ Len(_entries) > 0

----------------------------------------------------------------------------
(* C22 *)

\* C22: whatever requestWillBeSent and requestWillBeSentExtraInfo events have
\* been delivered, in whatever order and however often, the request header
\* list of every pending entry and of every entry of the output holds each
\* header name (compared as the code compares it, as a string) at most once.
C22_HeaderNamesOnce ==
    /\ \A i \in 1..Len(_pending_requests) :
           LET list == _pending_requests[i].request.headers
           IN  Cardinality(HeaderNames(list)) = Len(list)
    /\ \A i \in 1..Len(_entries) :
           LET list == _entries[i].request.headers
           IN  Cardinality(HeaderNames(list)) = Len(list)

\* a request with an Accept header got extraInfo headers that name Accept
\* again, for a finalized entry and for a pending one: both hold Accept once,
\* with the value of the request, and Cookie once
C22_Witness ==
    /\ \E i \in 1..Len(_entries) :
           _entries[i].request.headers =
                  <<[name |-> "Accept", value |-> "text/html"],
                    [name |-> "Cookie", value |-> "a=1"]>>
    /\ \E i \in 1..Len(_pending_requests) :
           _pending_requests[i].request.headers =
                  <<[name |-> "Accept", value |-> "text/html"],
                    [name |-> "Cookie", value |-> "a=1"]>>

----------------------------------------------------------------------------
(* C23 *)

\* C23: within one capture at most one Network.enable is sent per session id,
\* counting the commands start() sends for the sessions it knows and the ones
\* the tasks scheduled by Target.attachedToTarget send, in any interleaving
\* and also when a command of start() fails.  (The states looked at are those
\* of the first capture: its start() has been called and its stop() has not
\* returned.)
C23_OneEnablePerSession ==
    (starts = 1 /\ (_started \/ pc # "idle"))
        => \A sid \in Sessions : enable_cmds[sid] <= 1

----------------------------------------------------------------------------
(* C24 *)

DocumentEntries(file) ==
    {file.har.log.entries[i] : i \in 1..Len(file.har.log.entries)}

\* C24: a recorder started again after stop() begins the capture with an
\* empty output collection and an empty pending set, and the document its
\* stop() then writes holds none of the entries of the document written by
\* the stop() before.  (First conjunct: the step is a start() that is not a
\* no-op and comes after an earlier capture.  Second conjunct: the step is a
\* stop() of a later capture that writes the document while the document of
\* the capture before is in the file.)
C24_RestartBeginsEmpty ==
    [][/\ (starts >= 1 /\ starts' = starts + 1)
          => _entries' = <<>> /\ _pending_requests' = <<>>
       /\ (/\ starts >= 2
           /\ har_file.exists /\ har_file.complete
           /\ last'.op = "stop" /\ ~last'.noop /\ last'.wr = "ok"
           /\ pc' = "idle")
          => DocumentEntries(har_file') \cap DocumentEntries(har_file) = {}]_vars

----------------------------------------------------------------------------
(* C25 *)

\* C25: for the Playwright-based recorder, whatever start(), navigate() and
\* stop() calls were made and whichever external steps failed: is_recording
\* is true exactly when a start() has completed and no stop() has returned
\* since; navigate() never raises and calls goto only while recording; and
\* after stop() has returned the recorder holds neither a context nor a
\* playwright object.
C25_HarRecorderLifecycle ==
    recorder_pc = "idle" =>
        /\ is_recording = recorder_last.recording
        /\ recorder_last.op = "navigate"
              => /\ recorder_last.out = "returned"
                 /\ recorder_last.acted => recorder_last.recording
        /\ (recorder_last.op = "stop" /\ recorder_last.out = "returned")
              => recorder._context = None /\ recorder._playwright = None

====
